---- MODULE Spec2Model ----
(***************************************************************************)
(* Model of the moderation bot: the decision engine of                     *)
(* src/bot/moderator/ai_analyzer.py (ContentModerator, the module-level    *)
(* analyze_message wrapper, the response parser) and the message handler   *)
(* of src/bot/services/telegram_client.py (TelegramBot._handle_message).   *)
(*                                                                         *)
(* Text is modelled as a sequence of pieces.  An action label is a         *)
(* sequence of characters (so that upper()/lower() are computed), a reason *)
(* is a sequence of words, a provider reply is a sequence of tokens.       *)
(* Floats are records: finite values are counted in hundredths, and the    *)
(* IEEE specials nan, inf and -inf are kept apart because Python's float() *)
(* and json.loads() both produce them.                                     *)
(***************************************************************************)
EXTENDS Integers, Sequences, FiniteSets, TLC

\* ------------------------------------------------------------------ bounds
NumCalls == 2       \* handler invocations that may be in flight together
MaxTokLen == 5      \* longest provider reply, in tokens
MaxActLen == 3      \* longest enumerated action string, in characters

\* ------------------------------------------------------- program constants
TimeoutMinutes == 5         \* datetime.timedelta(minutes=5)
DefaultConfidence == 50     \* parsed_response.get('confidence', 0.5)
ErrorConfidence == 0        \* confidence=0.0 of both fallback results
ClampLow == 0               \* max(confidence, 0.0)
ClampHigh == 100            \* min(..., 1.0)

\* ------------------------------------------------------------------- text
Lowers == <<"a", "b", "d", "e", "i", "l", "m", "n", "o", "p", "r", "t", "u", "v", "w", "x">>
Uppers == <<"A", "B", "D", "E", "I", "L", "M", "N", "O", "P", "R", "T", "U", "V", "W", "X">>

IsLower(c) == \E i \in 1..Len(Lowers) : Lowers[i] = c
IsUpper(c) == \E i \in 1..Len(Uppers) : Uppers[i] = c
LetterIndex(seq, c) == CHOOSE i \in 1..Len(seq) : seq[i] = c

\* str.upper() and str.lower(), character by character; a character that is
\* not a letter ("_", " ", a digit) is left as it is.
UpperChar(c) == IF IsLower(c) THEN Uppers[LetterIndex(Lowers, c)] ELSE c
LowerChar(c) == IF IsUpper(c) THEN Lowers[LetterIndex(Uppers, c)] ELSE c
Upper(s) == [i \in 1..Len(s) |-> UpperChar(s[i])]
Lower(s) == [i \in 1..Len(s) |-> LowerChar(s[i])]

\* class ModerationAction(Enum): member name -> value
ModerationAction ==
    [APPROVE |-> <<"a", "p", "p", "r", "o", "v", "e">>,
     WARN    |-> <<"w", "a", "r", "n">>,
     DELETE  |-> <<"d", "e", "l", "e", "t", "e">>,
     BAN     |-> <<"b", "a", "n">>,
     TIMEOUT |-> <<"t", "i", "m", "e", "o", "u", "t">>]
ActionNames == DOMAIN ModerationAction

\* ModerationAction(value): the member whose value is `value`, else ValueError
IsActionValue(v) == \E a \in ActionNames : ModerationAction[a] = v
ActionOfValue(v) == CHOOSE a \in ActionNames : ModerationAction[a] = v

\* ----------------------------------------------------------- JSON values
\* What json.loads can put under a key: k is the Python type of the value.
Absent    == [k |-> "absent", n |-> 0, s |-> <<>>]
JNull     == [k |-> "null", n |-> 0, s |-> <<>>]
JList     == [k |-> "list", n |-> 0, s |-> <<>>]
JTrue     == [k |-> "bool", n |-> 1, s |-> <<>>]
JNum(x)   == [k |-> "num", n |-> x, s |-> <<>>]
JNaN      == [k |-> "nan", n |-> 0, s |-> <<>>]
JInf      == [k |-> "inf", n |-> 0, s |-> <<>>]
JNegInf   == [k |-> "ninf", n |-> 0, s |-> <<>>]
JStr(str) == [k |-> "str", n |-> 0, s |-> str]

\* dict.get(key, default)
Get(v, default) == IF v.k = "absent" THEN default ELSE v

\* --------------------------------------------------------------- floats
Fin(x) == [k |-> "fin", n |-> x]
FNaN   == [k |-> "nan", n |-> 0]
FInf   == [k |-> "inf", n |-> 0]
FNegInf == [k |-> "ninf", n |-> 0]

\* a < b on floats; every comparison with nan is False
FLt(a, b) ==
    CASE a.k = "nan" \/ b.k = "nan" -> FALSE
      [] a.k = "ninf" -> b.k # "ninf"
      [] a.k = "inf" -> FALSE
      [] b.k = "inf" -> TRUE
      [] b.k = "ninf" -> FALSE
      [] OTHER -> a.n < b.n
FGt(a, b) == FLt(b, a)

\* builtin max(a, b) / min(a, b): the first argument is kept unless the
\* second compares strictly greater / smaller
PyMax(a, b) == IF FGt(b, a) THEN b ELSE a
PyMin(a, b) == IF FLt(b, a) THEN b ELSE a

\* min(max(confidence, 0.0), 1.0)
Clamp(confidence) == PyMin(PyMax(confidence, Fin(ClampLow)), Fin(ClampHigh))

Digits == <<"0", "1", "2", "3", "4", "5", "6", "7", "8", "9">>
IsDigit(c) == \E i \in 1..10 : Digits[i] = c
DigitVal(c) == (CHOOSE i \in 1..10 : Digits[i] = c) - 1

\* str.strip() on a sequence of pieces: drop leading and trailing blanks
RECURSIVE LStrip(_)
LStrip(s) == IF s # <<>> /\ Head(s) = " " THEN LStrip(Tail(s)) ELSE s
RECURSIVE RStrip(_)
RStrip(s) == IF s # <<>> /\ s[Len(s)] = " " THEN RStrip(SubSeq(s, 1, Len(s) - 1)) ELSE s
Strip(s) == RStrip(LStrip(s))

RECURSIVE DigitsValue(_)
DigitsValue(s) == IF s = <<>> THEN 0 ELSE 10 * DigitsValue(SubSeq(s, 1, Len(s) - 1)) + DigitVal(s[Len(s)])
AllDigits(s) == \A i \in 1..Len(s) : IsDigit(s[i])

\* the unsigned part of a float literal: digits, or digits "." digits with
\* one or two decimals (hundredths)
IsUnsigned(s) ==
    \/ s # <<>> /\ AllDigits(s)
    \/ \E d \in 1..Len(s) :
          /\ s[d] = "."
          /\ AllDigits(SubSeq(s, 1, d - 1)) /\ AllDigits(SubSeq(s, d + 1, Len(s)))
          /\ Len(s) > 1 /\ Len(s) - d <= 2
UnsignedValue(s) ==
    IF AllDigits(s) THEN 100 * DigitsValue(s)
    ELSE LET d == CHOOSE i \in 1..Len(s) : s[i] = "."
             frac == SubSeq(s, d + 1, Len(s))
         IN 100 * DigitsValue(SubSeq(s, 1, d - 1))
            + (IF Len(frac) = 1 THEN 10 * DigitsValue(frac) ELSE DigitsValue(frac))

\* float(str): surrounding blanks are ignored, an optional sign, then a
\* decimal literal or nan / inf in any case; anything else is ValueError
StrFloat(str) ==
    LET t == Strip(str)
        neg == t # <<>> /\ Head(t) = "-"
        u == IF t # <<>> /\ Head(t) \in {"-", "+"} THEN Tail(t) ELSE t
        w == Lower(u)
    IN CASE w = <<"n", "a", "n">> -> [ok |-> TRUE, val |-> FNaN]
         [] w = <<"i", "n", "f">> -> [ok |-> TRUE, val |-> IF neg THEN FNegInf ELSE FInf]
         [] IsUnsigned(u) -> [ok |-> TRUE, val |-> Fin(IF neg THEN 0 - UnsignedValue(u) ELSE UnsignedValue(u))]
         [] OTHER -> [ok |-> FALSE, val |-> Fin(0)]

\* float(value) for a value taken out of the parsed JSON object
PyFloat(v) ==
    CASE v.k = "num" -> [ok |-> TRUE, val |-> Fin(v.n), err |-> "none"]
      [] v.k = "bool" -> [ok |-> TRUE, val |-> Fin(100 * v.n), err |-> "none"]
      [] v.k = "nan" -> [ok |-> TRUE, val |-> FNaN, err |-> "none"]
      [] v.k = "inf" -> [ok |-> TRUE, val |-> FInf, err |-> "none"]
      [] v.k = "ninf" -> [ok |-> TRUE, val |-> FNegInf, err |-> "none"]
      [] v.k = "str" -> [ok |-> StrFloat(v.s).ok, val |-> StrFloat(v.s).val,
                         err |-> IF StrFloat(v.s).ok THEN "none" ELSE "ValueError: could not convert string to float"]
      [] OTHER -> [ok |-> FALSE, val |-> Fin(0), err |-> "TypeError: float() argument must be a string or a real number"]

\* ------------------------------------------------------ provider replies
\* A reply is response.content as a sequence of tokens: "{" and "}", "m" (a
\* well-formed member list, whose decoded members are `fields`), "w" (a word
\* of prose) and " " (white space).
Tokens == {"{", "}", "m", "w", " "}
NoFields == [action |-> Absent, reason |-> Absent, confidence |-> Absent]

\* str.find / str.rfind, with Python's 0-based result and -1 for not found
Find(s, c) == IF \E i \in 1..Len(s) : s[i] = c
              THEN (CHOOSE i \in 1..Len(s) : s[i] = c /\ \A j \in 1..(i - 1) : s[j] # c) - 1
              ELSE -1
RFind(s, c) == IF \E i \in 1..Len(s) : s[i] = c
               THEN (CHOOSE i \in 1..Len(s) : s[i] = c /\ \A j \in (i + 1)..Len(s) : s[j] # c) - 1
               ELSE -1
\* s[a:b] for 0 <= a, 0 <= b
Slice(s, a, b) == SubSeq(s, a + 1, b)

\* json.loads(json_str): white space between tokens is insignificant; the
\* text is a JSON document exactly when it is "{}" or "{" members "}"
RECURSIVE Squeeze(_)
Squeeze(s) == IF s = <<>> THEN <<>>
              ELSE IF Head(s) = " " THEN Squeeze(Tail(s))
              ELSE <<Head(s)>> \o Squeeze(Tail(s))
IsJson(json_str) == Squeeze(json_str) \in {<<"{", "}">>, <<"{", "m", "}">>}
JsonLoads(json_str, fields) == IF Squeeze(json_str) = <<"{", "}">> THEN NoFields ELSE fields

\* ------------------------------------------------------ ModerationResult
ModerationResult(action, reason, confidence, message_analyzed) ==
    [action |-> action, reason |-> reason, confidence |-> confidence,
     message_analyzed |-> message_analyzed]

NoJsonFound == "No se encontro JSON valido en la respuesta"
ParsePrefix == "Error parseando respuesta: "
ReasonPlaceholder == JStr(<<"Sin razon especificada">>)

\* the except branch of _parse_moderation_response
ParseFallbackPunitive(e, original_message) ==
    ModerationResult("WARN", JStr(<<ParsePrefix, e>>), Fin(ErrorConfidence), original_message)
ParseFallbackHalf(e, original_message) ==
    ModerationResult("APPROVE", JStr(<<ParsePrefix, e>>), Fin(DefaultConfidence), original_message)
ParseFallback(e, original_message) ==
    ModerationResult("APPROVE", JStr(<<ParsePrefix, e>>), Fin(ErrorConfidence), original_message)

\* the string-to-enum conversion with its own except ValueError
ToAction(action_str) ==
    IF IsActionValue(Lower(action_str)) THEN ActionOfValue(Lower(action_str)) ELSE "APPROVE"

\* lines 327-333: the candidate payload, from the first "{" to the last "}"
StartIdx(response_content) == Find(response_content, "{")
EndIdx(response_content) == RFind(response_content, "}") + 1
JsonStrWhole(response_content) == response_content
JsonStr(response_content) == Slice(response_content, StartIdx(response_content), EndIdx(response_content))

\* The first exception raised inside the try block of
\* _parse_moderation_response, "none" when the block runs to its return.
ParseError(response) ==
    LET response_content == Strip(response.toks)
        start_idx == StartIdx(response_content)
        end_idx == EndIdx(response_content)
        json_str == JsonStr(response_content)
        parsed_response == JsonLoads(json_str, response.fields)
    IN CASE start_idx = -1 \/ end_idx = 0 -> NoJsonFound
         [] ~IsJson(json_str) -> "JSONDecodeError"
         [] Get(parsed_response.action, JStr(<<>>)).k # "str" -> "AttributeError: object has no attribute 'upper'"
         [] ~PyFloat(Get(parsed_response.confidence, JNum(DefaultConfidence))).ok ->
                PyFloat(Get(parsed_response.confidence, JNum(DefaultConfidence))).err
         [] OTHER -> "none"

\* ContentModerator._parse_moderation_response
parse_moderation_response(response, original_message) ==
    LET response_content == Strip(response.toks)
        start_idx == StartIdx(response_content)
        end_idx == EndIdx(response_content)
        json_str == JsonStr(response_content)
        parsed_response == JsonLoads(json_str, response.fields)
        action_str == Upper(Get(parsed_response.action, JStr(<<>>)).s)
        reason == Get(parsed_response.reason, ReasonPlaceholder)
        confidence == PyFloat(Get(parsed_response.confidence, JNum(DefaultConfidence))).val
    IN IF ParseError(response) # "none"
       THEN ParseFallback(ParseError(response), original_message)
       ELSE ModerationResult(ToAction(action_str), reason, Clamp(confidence), original_message)

\* --------------------------------------------------------------- engine
AnalysisPrefix == "Error en analisis: "
NotInitialized == "Moderador no inicializado. Llama a initialize() primero."

\* the except branch of ContentModerator.analyze_message
AnalysisFallbackNoEcho(e, message) ==
    ModerationResult("APPROVE", JStr(<<AnalysisPrefix>>), Fin(ErrorConfidence), "")
AnalysisFallback(e, message) ==
    ModerationResult("APPROVE", JStr(<<AnalysisPrefix, e>>), Fin(ErrorConfidence), message)

\* ContentModerator.initialize on the engine `self`; `fault` says which of
\* its two constructions raises: "connection" (ChatGoogleGenerativeAI(...)),
\* "prompt" (ChatPromptTemplate.from_messages(...)) or "none".  `conn` and
\* `tmpl` are the identities of the objects constructed by this run.  The
\* except branch logs and re-raises.
initializeSwallow(self, fault, conn, tmpl) ==
    CASE fault = "connection" ->
            [llm |-> self.llm, prompt_template |-> self.prompt_template, raised |-> FALSE]
      [] fault = "prompt" ->
            [llm |-> conn, prompt_template |-> self.prompt_template, raised |-> FALSE]
      [] OTHER ->
            [llm |-> conn, prompt_template |-> tmpl, raised |-> FALSE]
initializeSticky(self, fault, conn, tmpl) ==
    CASE fault = "connection" ->
            [llm |-> conn, prompt_template |-> self.prompt_template, raised |-> TRUE]
      [] fault = "prompt" ->
            [llm |-> conn, prompt_template |-> self.prompt_template, raised |-> TRUE]
      [] OTHER ->
            [llm |-> conn, prompt_template |-> tmpl, raised |-> FALSE]
initialize(self, fault, conn, tmpl) ==
    CASE fault = "connection" ->
            [llm |-> self.llm, prompt_template |-> self.prompt_template, raised |-> TRUE]
      [] fault = "prompt" ->
            [llm |-> conn, prompt_template |-> self.prompt_template, raised |-> TRUE]
      [] OTHER ->
            [llm |-> conn, prompt_template |-> tmpl, raised |-> FALSE]

\* `if not moderator.llm:` of the module-level analyze_message
NeedsInitAlways(self) == TRUE
NeedsInit(self) == self.llm = 0

\* --------------------------------------------------------------- handler
\* where _handle_message ends after an exception inside its try block: the
\* except branch logs and falls through to the end of the handler ("done");
\* "crashed" is an exception leaving the handler
HandlerExceptReraise == "crashed"
HandlerExcept == "done"

Delete == [op |-> "delete", text |-> Absent, minutes |-> 0]
SendMessage(reason) == [op |-> "send_message", text |-> reason, minutes |-> 0]
BanChatMember == [op |-> "ban_chat_member", text |-> Absent, minutes |-> 0]
RestrictChatMember(m) == [op |-> "restrict_chat_member", text |-> Absent, minutes |-> m]

\* the if/elif chain of _handle_message: the gateway calls it awaits, in order
DispatchDeleteThenBan(result, warn) ==
    CASE result.action = "DELETE" ->
            <<Delete>> \o (IF warn THEN <<SendMessage(result.reason)>> ELSE <<>>)
      [] result.action = "WARN" -> <<SendMessage(result.reason)>>
      [] result.action = "BAN" -> <<Delete, BanChatMember>>
      [] result.action = "TIMEOUT" -> <<RestrictChatMember(TimeoutMinutes)>>
      [] OTHER -> <<>>
DispatchBanOnly(result, warn) ==
    CASE result.action = "DELETE" ->
            <<Delete>> \o (IF warn THEN <<SendMessage(result.reason)>> ELSE <<>>)
      [] result.action = "WARN" -> <<SendMessage(result.reason)>>
      [] result.action = "BAN" -> <<BanChatMember>>
      [] result.action = "TIMEOUT" -> <<RestrictChatMember(TimeoutMinutes)>>
      [] OTHER -> <<>>
DispatchAlwaysWarns(result, warn) ==
    CASE result.action = "DELETE" -> <<Delete, SendMessage(result.reason)>>
      [] result.action = "WARN" -> <<SendMessage(result.reason)>>
      [] result.action = "BAN" -> <<BanChatMember, Delete>>
      [] result.action = "TIMEOUT" -> <<RestrictChatMember(TimeoutMinutes)>>
      [] OTHER -> <<>>
DispatchWarnDeletes(result, warn) ==
    CASE result.action = "DELETE" ->
            <<Delete>> \o (IF warn THEN <<SendMessage(result.reason)>> ELSE <<>>)
      [] result.action = "WARN" -> <<Delete, SendMessage(result.reason)>>
      [] result.action = "BAN" -> <<BanChatMember, Delete>>
      [] result.action = "TIMEOUT" -> <<RestrictChatMember(TimeoutMinutes)>>
      [] OTHER -> <<>>
Dispatch(result, warn) ==
    CASE result.action = "DELETE" ->
            <<Delete>> \o (IF warn THEN <<SendMessage(result.reason)>> ELSE <<>>)
      [] result.action = "WARN" -> <<SendMessage(result.reason)>>
      [] result.action = "BAN" -> <<BanChatMember, Delete>>
      [] result.action = "TIMEOUT" -> <<RestrictChatMember(TimeoutMinutes)>>
      [] OTHER -> <<>>

\* ------------------------------------------------------------ input sets
Calls == 1..NumCalls
Texts == <<"hola", "compra ya", "gana dinero">>
Messages == {Texts[i] : i \in 1..Len(Texts)}
\* the text of the t-th inbound message where several handlers interleave
Inbound(t) == Texts[((t - 1) % Len(Texts)) + 1]
Faults == {"none", "connection", "prompt"}
Failures == {"network error", "provider error", "timeout", "retries exhausted"}
FailureSample == {"timeout"}

RECURSIVE SeqsUpTo(_, _)
SeqsUpTo(S, n) == IF n = 0 THEN {<<>>}
                  ELSE LET shorter == SeqsUpTo(S, n - 1)
                       IN shorter \cup {Append(q, x) : q \in {r \in shorter : Len(r) = n - 1}, x \in S}

Bare == <<"{", "m", "}">>
Wrapped == <<"w", "{", "m", "}", "w">>
Reply(toks, action, reason, confidence) ==
    [toks |-> toks, fields |-> [action |-> action, reason |-> reason, confidence |-> confidence]]

ActChars == {"b", "a", "n", "B", "A", "N"}
ActionStrings ==
    {JStr(a) : a \in SeqsUpTo(ActChars, MaxActLen)} \cup
    {JStr(<<"w", "a", "r", "n">>), JStr(<<"W", "A", "R", "N">>), JStr(<<"W", "a", "r", "n">>),
     JStr(<<"d", "e", "l", "e", "t", "e">>), JStr(<<"D", "E", "L", "E", "T", "E">>),
     JStr(<<"D", "e", "L", "e", "T", "e">>),
     JStr(<<"a", "p", "p", "r", "o", "v", "e">>), JStr(<<"A", "P", "P", "R", "O", "V", "E">>),
     JStr(<<"t", "i", "m", "e", "o", "u", "t">>), JStr(<<"T", "I", "M", "E", "O", "U", "T">>),
     JStr(<<"T", "i", "m", "e", "O", "u", "t">>),
     JStr(<<"u", "n", "k", "n", "o", "w", "n", "_", "v", "a", "l", "u", "e">>),
     JStr(<<" ", "b", "a", "n">>), JStr(<<"b", "a", "n", "n">>), JStr(<<"d", "e", "l">>)}
ActionValues == ActionStrings \cup {Absent, JNull, JNum(1), JList}
ActionSample == {JStr(<<"B", "A", "N">>), JStr(<<"w", "a", "r", "n">>), JStr(<<"k", "i", "c", "k">>), Absent}

ReasonValues == {Absent, JStr(<<"spam">>), JStr(<<"repeated", " ", "scam", " ", "link">>), JStr(<<>>), JNull, JNum(7)}
ReasonSample == {JStr(<<"spam">>)}

ConfidenceValues ==
    {Absent, JNull, JList, JTrue, JNaN, JInf, JNegInf,
     JNum(-20), JNum(0), JNum(40), JNum(90), JNum(100), JNum(150),
     JStr(<<"0", ".", "9">>), JStr(<<"1", ".", "5">>), JStr(<<"-", "0", ".", "2">>),
     JStr(<<" ", "0", ".", "4", " ">>), JStr(<<"2">>), JStr(<<"h", "i", "g", "h">>),
     JStr(<<"n", "a", "n">>), JStr(<<"I", "n", "f">>), JStr(<<>>)}
ConfidenceSample == {JNum(40), JNum(150)}

\* the replies the parser is checked on: every token sequence with a few
\* member lists; every action value, and every reason and confidence value,
\* in a bare and in a wrapped object
RepliesByText ==
    {Reply(t, a, r, c) : t \in SeqsUpTo(Tokens, MaxTokLen),
                         a \in {JStr(<<"B", "A", "N">>)}, r \in ReasonSample, c \in ConfidenceSample}
RepliesByAction ==
    {Reply(t, a, r, c) : t \in {Bare, Wrapped}, a \in ActionValues, r \in ReasonSample, c \in ConfidenceSample}
RepliesByFields ==
    {Reply(t, a, r, c) : t \in {Bare, Wrapped}, a \in ActionSample, r \in ReasonValues, c \in ConfidenceValues}

\* the replies used where several handlers interleave
ReplySample ==
    {Reply(Bare, JStr(<<"a", "p", "p", "r", "o", "v", "e">>), JStr(<<"ok">>), JNum(90)),
     Reply(Bare, JStr(<<"W", "A", "R", "N">>), JStr(<<"borderline">>), JNum(40)),
     Reply(Wrapped, JStr(<<"d", "e", "l", "e", "t", "e">>), JStr(<<"spam">>), JNum(90)),
     Reply(Bare, JStr(<<"B", "A", "N">>), JStr(<<"repeated", " ", "scam", " ", "link">>), JNum(150)),
     Reply(Bare, JStr(<<"T", "i", "m", "e", "O", "u", "t">>), JStr(<<"insists">>), JNum(100)),
     Reply(Bare, JStr(<<"u", "n", "k", "n", "o", "w", "n", "_", "v", "a", "l", "u", "e">>), JStr(<<"x">>), JNum(40)),
     Reply(<<"w", "w">>, Absent, Absent, Absent),
     Reply(<<"{", "m", "}", "}">>, JStr(<<"b", "a", "n">>), JStr(<<"x">>), JNum(90)),
     Reply(Bare, JNull, JStr(<<"x">>), JNum(40)),
     Reply(Bare, JStr(<<"b", "a", "n">>), JStr(<<"x">>), JStr(<<"h", "i", "g", "h">>))}

\* ----------------------------------------------------------------- state
VARIABLES
    llm,                 \* moderator.llm: 0 is None, k the k-th connection built
    prompt_template,     \* moderator.prompt_template: 0 is None, k the k-th template
    connections,         \* ChatGoogleGenerativeAI objects constructed so far
    templates,           \* ChatPromptTemplate objects constructed so far
    init_runs,           \* runs of moderator.initialize() so far
    warn_before_delete,  \* settings.warn_before_delete
    moderation_enabled,  \* settings.moderation_enabled
    pc,                  \* per handler: "idle", "invoking", "acting", "done" ("crashed": an exception left it)
    message,             \* per handler: update.message.text
    cold,                \* per handler: moderator.llm was None when it started
    init_fault,          \* per handler: what failed in the initialize() it ran, "none" if nothing
    response,            \* per handler: response.content received from the provider
    failure,             \* per handler: exception raised by ainvoke, "none" if none
    outcome,             \* per handler: how analyze_message ended: "pending", "returned", "raised"
    result,              \* per handler: the ModerationResult returned
    todo,                \* per handler: gateway calls still to be awaited
    gateway              \* per handler: gateway calls made, with their success

vars == <<llm, prompt_template, connections, templates, init_runs, warn_before_delete,
          moderation_enabled, pc, message, cold, init_fault, response, failure, outcome, result, todo, gateway>>
engine_vars == <<llm, prompt_template, connections, templates, init_runs>>
settings_vars == <<warn_before_delete, moderation_enabled>>

NoMessage == "<none>"
NoResponse == Reply(<<>>, Absent, Absent, Absent)
NoResult == ModerationResult("NONE", Absent, Fin(0), NoMessage)

\* moderator = ContentModerator(); bot = TelegramBot(); settings loaded once
Init ==
    /\ llm = 0 /\ prompt_template = 0
    /\ connections = 0 /\ templates = 0 /\ init_runs = 0
    /\ warn_before_delete \in BOOLEAN
    /\ moderation_enabled \in BOOLEAN
    /\ pc = [t \in Calls |-> "idle"]
    /\ message = [t \in Calls |-> NoMessage]
    /\ cold = [t \in Calls |-> FALSE]
    /\ init_fault = [t \in Calls |-> "none"]
    /\ response = [t \in Calls |-> NoResponse]
    /\ failure = [t \in Calls |-> "none"]
    /\ outcome = [t \in Calls |-> "pending"]
    /\ result = [t \in Calls |-> NoResult]
    /\ todo = [t \in Calls |-> <<>>]
    /\ gateway = [t \in Calls |-> <<>>]

\* The handler has the result of analyze_message in hand and walks its
\* if/elif chain up to the first gateway call it awaits.
ReturnedShared(t, res) ==
    /\ outcome' = [outcome EXCEPT ![t] = "returned"]
    /\ result' = [u \in Calls |-> IF u = t \/ result[u] # NoResult THEN res ELSE result[u]]
    /\ todo' = [todo EXCEPT ![t] = Dispatch(res, warn_before_delete)]
    /\ pc' = [pc EXCEPT ![t] = IF Dispatch(res, warn_before_delete) = <<>> THEN "done" ELSE "acting"]
Returned(t, res) ==
    /\ outcome' = [outcome EXCEPT ![t] = "returned"]
    /\ result' = [result EXCEPT ![t] = res]
    /\ todo' = [todo EXCEPT ![t] = Dispatch(res, warn_before_delete)]
    /\ pc' = [pc EXCEPT ![t] = IF Dispatch(res, warn_before_delete) = <<>> THEN "done" ELSE "acting"]

\* _handle_message is entered for an inbound text and runs, without giving
\* up the event loop, through the module-level analyze_message (the check of
\* moderator.llm and, when it is None, the whole of initialize(), which
\* awaits nothing that suspends) up to the await of chain.ainvoke.
HandleMessage(t, m, fault) ==
    /\ pc[t] = "idle"
    /\ message' = [message EXCEPT ![t] = m]
    /\ LET self == [llm |-> llm, prompt_template |-> prompt_template]
           built_conn == NeedsInit(self) /\ fault # "connection"
           built_tmpl == NeedsInit(self) /\ fault = "none"
           after == IF NeedsInit(self)
                    THEN initialize(self, fault, connections + 1, templates + 1)
                    ELSE [llm |-> llm, prompt_template |-> prompt_template, raised |-> FALSE]
       IN /\ cold' = [cold EXCEPT ![t] = NeedsInit(self)]
          /\ init_fault' = [init_fault EXCEPT ![t] = IF NeedsInit(self) THEN fault ELSE "none"]
          /\ llm' = after.llm
          /\ prompt_template' = after.prompt_template
          /\ connections' = IF built_conn THEN connections + 1 ELSE connections
          /\ templates' = IF built_tmpl THEN templates + 1 ELSE templates
          /\ init_runs' = IF NeedsInit(self) THEN init_runs + 1 ELSE init_runs
          /\ IF after.raised
             THEN \* initialize() raised out of analyze_message: the handler's except
                  /\ outcome' = [outcome EXCEPT ![t] = "raised"]
                  /\ pc' = [pc EXCEPT ![t] = HandlerExcept]
                  /\ UNCHANGED <<result, todo>>
             ELSE IF after.llm = 0 \/ after.prompt_template = 0
             THEN \* the ValueError of the initialization check, caught in place
                  Returned(t, AnalysisFallback(NotInitialized, m))
             ELSE /\ pc' = [pc EXCEPT ![t] = "invoking"]
                  /\ UNCHANGED <<outcome, result, todo>>
    /\ UNCHANGED <<settings_vars, response, failure, gateway>>

\* chain.ainvoke returns one of `replies`: the reply is parsed and the result
\* handed back
ProviderReply(t, replies) ==
    /\ pc[t] = "invoking"
    /\ \E r \in replies :
          /\ response' = [response EXCEPT ![t] = r]
          /\ Returned(t, parse_moderation_response(r, message[t]))
    /\ UNCHANGED <<engine_vars, settings_vars, message, cold, init_fault, failure, gateway>>

\* chain.ainvoke raises: the except branch of ContentModerator.analyze_message
ProviderFailureResets(t, e) ==
    /\ pc[t] = "invoking"
    /\ failure' = [failure EXCEPT ![t] = e]
    /\ Returned(t, AnalysisFallback(e, message[t]))
    /\ llm' = 0
    /\ UNCHANGED <<prompt_template, connections, templates, init_runs>>
    /\ UNCHANGED <<settings_vars, message, cold, init_fault, response, gateway>>
ProviderFailure(t, e) ==
    /\ pc[t] = "invoking"
    /\ failure' = [failure EXCEPT ![t] = e]
    /\ Returned(t, AnalysisFallback(e, message[t]))
    /\ UNCHANGED <<engine_vars, settings_vars, message, cold, init_fault, response, gateway>>

\* one awaited gateway call of the handler completes or raises; a raise
\* lands in the handler's except, which skips the remaining calls
GatewayCall(t, ok) ==
    /\ pc[t] = "acting"
    /\ gateway' = [gateway EXCEPT ![t] = Append(@, [call |-> Head(todo[t]), ok |-> ok])]
    /\ todo' = [todo EXCEPT ![t] = IF ok THEN Tail(@) ELSE <<>>]
    /\ pc' = [pc EXCEPT ![t] = IF ~ok THEN HandlerExcept
                               ELSE IF Tail(todo[t]) # <<>> THEN "acting" ELSE "done"]
    /\ UNCHANGED <<engine_vars, settings_vars, message, cold, init_fault, response, failure, outcome, result>>

Next ==
    \/ \E t \in Calls, fault \in Faults : HandleMessage(t, Inbound(t), fault)
    \/ \E t \in Calls : ProviderReply(t, ReplySample)
    \/ \E t \in Calls, e \in FailureSample : ProviderFailure(t, e)
    \/ \E t \in Calls, ok \in BOOLEAN : GatewayCall(t, ok)

Spec == Init /\ [][Next]_vars

\* One handler, over every message, every failure and every reply of the
\* three reply sets: the specification the claims about a single analysis are checked
\* under.
OneCallNext ==
    \/ \E m \in Messages, fault \in Faults : HandleMessage(1, m, fault)
    \/ ProviderReply(1, RepliesByText)
    \/ ProviderReply(1, RepliesByAction)
    \/ ProviderReply(1, RepliesByFields)
    \/ \E e \in Failures : ProviderFailure(1, e)
    \/ \E ok \in BOOLEAN : GatewayCall(1, ok)

OneCallSpec == Init /\ [][OneCallNext]_vars

\* =============================================================== claims
Analysed(t) == outcome[t] = "returned"
Replied(t) == Analysed(t) /\ response[t] # NoResponse
InUnitInterval(f) == f.k = "fin" /\ 0 <= f.n /\ f.n <= 100
Contains(str, piece) == \E i \in 1..Len(str) : str[i] = piece

\* C1: every call of the module-level analyze_message returns exactly one
\* ModerationResult and never raises to its caller, whatever the engine state
\* and whatever the outcome of initialization, invocation and parsing.
C1_AlwaysReturns ==
    \A t \in Calls : pc[t] \in {"acting", "done"} => outcome[t] = "returned" /\ result[t] # NoResult

\* C2: when the provider invocation fails, ContentModerator.analyze_message
\* does not raise; it returns APPROVE with confidence 0.0, a reason that
\* contains the failure description, and message_analyzed equal to its input.
C2_InvocationFailureFailsOpen ==
    \A t \in Calls : failure[t] # "none" =>
        /\ outcome[t] = "returned"
        /\ result[t].action = "APPROVE"
        /\ result[t].confidence = Fin(0)
        /\ result[t].reason.k = "str" /\ Contains(result[t].reason.s, failure[t])
        /\ result[t].message_analyzed = message[t]
C2_Witness ==
    \E t \in Calls : failure[t] = "retries exhausted" /\ outcome[t] = "returned" /\ message[t] = "compra ya"

\* C3: when all the calls, for distinct messages, are started while the
\* engine is uninitialized, the connection and the prompt are constructed
\* exactly once and every call completes with its own decision.
C3_ConstructedOnceAllComplete ==
    ((\A t \in Calls : pc[t] = "done") /\ (\A t, u \in Calls : t # u => message[t] # message[u])) =>
        /\ connections = 1 /\ templates = 1 /\ init_runs = 1
        /\ \A t \in Calls : outcome[t] = "returned" /\ result[t].message_analyzed = message[t]

\* C4: a failure while establishing the connection or building the prompt
\* makes initialize() raise to its caller; it never returns normally after
\* such a failure, so the call never goes on to the provider.
C4_InitFailureRaises ==
    \A t \in Calls : init_fault[t] # "none" =>
        /\ outcome[t] = "raised"
        /\ pc[t] = "done" /\ response[t] = NoResponse /\ failure[t] = "none"
C4_Witness ==
    /\ \E t \in Calls : init_fault[t] = "connection" /\ outcome[t] = "raised"
    /\ \E t \in Calls : init_fault[t] = "prompt" /\ outcome[t] = "raised"

\* C5: whatever the confidence field of the reply (absent, negative, above
\* 1, a non-numeric string, null, not-a-number), the confidence of the
\* returned ModerationResult lies in [0.0, 1.0].
C5_ConfidenceInUnitInterval ==
    \A t \in Calls : Analysed(t) => InUnitInterval(result[t].confidence)

\* two characters are the same letter in either case
SameLetter(c, d) == c = d \/ \E i \in 1..Len(Lowers) : {c, d} = {Lowers[i], Uppers[i]}
EqIgnoreCase(a, b) == Len(a) = Len(b) /\ \A i \in 1..Len(a) : SameLetter(a[i], b[i])
ClampedHundredths(x) == IF x < 0 THEN 0 ELSE IF x > 100 THEN 100 ELSE x
\* the reply carries a JSON object between its first "{" and its last "}"
HasObject(r) == StartIdx(Strip(r.toks)) # -1 /\ IsJson(JsonStr(Strip(r.toks)))
ObjectOf(r) == JsonLoads(JsonStr(Strip(r.toks)), r.fields)

\* C6: the action string of the reply is mapped case-insensitively: a string
\* equal, ignoring case, to one of the five labels yields that action, every
\* other string yields APPROVE, and in both cases the reply's reason and its
\* clamped confidence are kept.
C6_ActionMappedIgnoringCase ==
    \A t \in Calls : (Replied(t) /\ HasObject(response[t]) /\ ObjectOf(response[t]).action.k = "str") =>
        LET obj == ObjectOf(response[t])
        IN /\ \A a \in ActionNames : EqIgnoreCase(obj.action.s, ModerationAction[a]) => result[t].action = a
           /\ (~\E a \in ActionNames : EqIgnoreCase(obj.action.s, ModerationAction[a])) => result[t].action = "APPROVE"
           /\ obj.reason.k # "absent" => result[t].reason = obj.reason
           /\ InUnitInterval(result[t].confidence)
           /\ obj.confidence.k = "num" => result[t].confidence = Fin(ClampedHundredths(obj.confidence.n))

\* no "{", or no "}" after the first "{"
NoBracePair(toks) == ~\E i, j \in 1..Len(toks) : i < j /\ toks[i] = "{" /\ toks[j] = "}"

\* C7: a reply with no "{" ... "}" substring, or whose candidate substring is
\* not valid JSON, gives APPROVE with confidence 0.0 and a reason describing
\* the parsing failure, and analysis does not raise.
C7_NoJsonFailsOpen ==
    \A t \in Calls :
        (pc[t] \in {"acting", "done"} /\ response[t] # NoResponse
         /\ (NoBracePair(response[t].toks) \/ ~IsJson(JsonStr(Strip(response[t].toks))))) =>
            /\ outcome[t] = "returned"
            /\ result[t].action = "APPROVE"
            /\ result[t].confidence = Fin(0)
            /\ result[t].reason.k = "str" /\ Len(result[t].reason.s) = 2
            /\ result[t].reason.s[1] = ParsePrefix
            /\ result[t].reason.s[2] \in {NoJsonFound, "JSONDecodeError"}
            /\ todo[t] = <<>> /\ gateway[t] = <<>>
C7_Witness ==
    \E t \in Calls : /\ Replied(t) /\ response[t].toks = <<"w", "}", "{", "m">>
                     /\ result[t].reason.s[2] = "JSONDecodeError"

\* the reply is one object "{" members "}" between two stretches of prose
IsPre(toks, n) == n + 3 <= Len(toks) /\ SubSeq(toks, n + 1, n + 3) = Bare
Pre(toks, n) == SubSeq(toks, 1, n)
Post(toks, n) == SubSeq(toks, n + 4, Len(toks))
\* prose holds no object of its own: no "{" followed by a "}"
Prose(toks) == "m" \notin {toks[i] : i \in 1..Len(toks)} /\ NoBracePair(toks)
BareResult(t) == parse_moderation_response([toks |-> Bare, fields |-> response[t].fields], message[t])

\* C8 as stated: for every reply made of one valid JSON object surrounded by
\* leading and/or trailing prose, the result is the action, reason and
\* confidence of the embedded object, validated as for a bare reply.
C8_WrappedObjectExtracted ==
    \A t \in Calls : Replied(t) =>
        \A n \in 0..Len(response[t].toks) :
            (IsPre(response[t].toks, n) /\ Prose(Pre(response[t].toks, n)) /\ Prose(Post(response[t].toks, n)))
                => result[t] = BareResult(t)

\* C8 amended: the same, for prose that has no "{" before the object and no
\* "}" after it.
C8_WrappedObjectExtractedAmended ==
    \A t \in Calls : Replied(t) =>
        \A n \in 0..Len(response[t].toks) :
            (/\ IsPre(response[t].toks, n)
             /\ Prose(Pre(response[t].toks, n)) /\ Prose(Post(response[t].toks, n))
             /\ ~Contains(Pre(response[t].toks, n), "{")
             /\ ~Contains(Post(response[t].toks, n), "}"))
                => result[t] = BareResult(t)
C8_Witness ==
    \E t \in Calls : /\ Replied(t) /\ response[t].toks = <<"}", "{", "m", "}", "w">>
                     /\ result[t].action = "BAN" /\ result[t].confidence = Fin(100)

\* C9: the reason of every returned ModerationResult is a non-empty string.
C9_ReasonNonEmpty ==
    \A t \in Calls : Analysed(t) => result[t].reason.k = "str" /\ Len(result[t].reason.s) > 0

Ops(t) == {gateway[t][i].call.op : i \in 1..Len(gateway[t])}

\* C10: the handler invokes only the gateway primitives of the decision's
\* action: none for APPROVE (every fail-open decision included) and none when
\* no decision was returned; for WARN only a private message carrying the
\* decision's reason; for TIMEOUT only a 5-minute restriction; a delete or a
\* ban only for DELETE or BAN.
C10_OnlyCallsOfTheAction ==
    \A t \in Calls :
        /\ outcome[t] # "returned" => gateway[t] = <<>> /\ todo[t] = <<>>
        /\ (Analysed(t) /\ result[t].action = "APPROVE") => gateway[t] = <<>> /\ todo[t] = <<>>
        /\ (Analysed(t) /\ result[t].action = "WARN") =>
              /\ Len(gateway[t]) = (IF pc[t] = "done" THEN 1 ELSE 0)
              /\ \A i \in 1..Len(gateway[t]) : gateway[t][i].call = SendMessage(result[t].reason)
        /\ (Analysed(t) /\ result[t].action = "TIMEOUT") =>
              /\ Len(gateway[t]) = (IF pc[t] = "done" THEN 1 ELSE 0)
              /\ \A i \in 1..Len(gateway[t]) :
                    gateway[t][i].call.op = "restrict_chat_member" /\ gateway[t][i].call.minutes = 5
        /\ (Ops(t) \cap {"delete", "ban_chat_member"} # {}) => Analysed(t) /\ result[t].action \in {"DELETE", "BAN"}
C10_Witness ==
    /\ \E t \in Calls : result[t].action = "TIMEOUT" /\ pc[t] = "done" /\ Len(gateway[t]) = 1
    /\ \E t \in Calls : result[t].action = "WARN" /\ pc[t] = "done" /\ Len(gateway[t]) = 1

\* ------------------------------------------------------------ C11 .. C20
Finished(t) == pc[t] = "done"
AllOk(t) == \A i \in 1..Len(gateway[t]) : gateway[t][i].ok
Did(t, call) == \E i \in 1..Len(gateway[t]) : gateway[t][i].call = call /\ gateway[t][i].ok

C13_DisabledOnlyObserves ==
    ~moderation_enabled => \A t \in Calls : gateway[t] = <<>>

\* C14: a failure while one inbound message is handled (engine
\* initialization, analysis, or a gateway call) never leaves the handler as an
\* exception: the handler of that message finishes, and a message not yet
\* handled can still be taken up.
C14_FailuresStayInHandler ==
    /\ \A t \in Calls : pc[t] # "crashed"
    /\ \A t \in Calls : (outcome[t] = "raised" \/ ~AllOk(t)) => Finished(t)
    /\ \A t \in Calls : failure[t] # "none" => Finished(t) /\ gateway[t] = <<>>
    /\ \A t \in Calls : pc[t] = "idle" => ENABLED HandleMessage(t, Inbound(t), "none")
C14_Witness ==
    \E t, u \in Calls :
        /\ t # u /\ Finished(t) /\ ~AllOk(t)
        /\ init_fault[u] # "none" /\ Finished(u)

\* a JSON value float() cannot turn into a number: null, a list, or a string
\* that spells no number
NotCoercible(v) ==
    \/ v.k \in {"null", "list"}
    \/ /\ v.k = "str"
       /\ \A i \in 1..Len(v.s) : ~IsDigit(v.s[i])
       /\ ~EqIgnoreCase(v.s, <<"n", "a", "n">>) /\ ~EqIgnoreCase(v.s, <<"i", "n", "f">>)
MappedAction(str) ==
    IF \E a \in ActionNames : EqIgnoreCase(str, ModerationAction[a])
    THEN CHOOSE a \in ActionNames : EqIgnoreCase(str, ModerationAction[a])
    ELSE "APPROVE"

\* C15: when the reply is a JSON object with no confidence field, or with a
\* confidence that cannot be coerced to a number, the result's confidence is
\* 0.5 and its action and reason are still those of the reply.
C15_ConfidenceDefaultsAlone ==
    \A t \in Calls :
        (/\ Replied(t) /\ HasObject(response[t])
         /\ ObjectOf(response[t]).action.k = "str"
         /\ ObjectOf(response[t]).reason.k = "str"
         /\ ObjectOf(response[t]).confidence.k = "absent" \/ NotCoercible(ObjectOf(response[t]).confidence)) =>
        /\ result[t].confidence = Fin(DefaultConfidence)
        /\ result[t].action = MappedAction(ObjectOf(response[t]).action.s)
        /\ result[t].reason = ObjectOf(response[t]).reason

\* C16: when the reply is a JSON object whose action is missing or is not a
\* string (a number, null, a list), the result's action is APPROVE while the
\* reply's own reason and its clamped confidence are kept.
C16_ActionDefaultsAlone ==
    \A t \in Calls :
        (/\ Replied(t) /\ HasObject(response[t])
         /\ ObjectOf(response[t]).action.k \in {"absent", "num", "null", "list"}
         /\ ObjectOf(response[t]).reason.k = "str"
         /\ ObjectOf(response[t]).confidence.k = "num") =>
        /\ result[t].action = "APPROVE"
        /\ result[t].reason = ObjectOf(response[t]).reason
        /\ result[t].confidence = Fin(ClampedHundredths(ObjectOf(response[t]).confidence.n))

\* C17: in any sequence of calls of the module-level analyze_message on a
\* fresh engine whose initialization succeeds, initialize runs exactly once,
\* during the first call, and every later call uses the same connection and
\* the same prompt.
C17_InitializedOnce ==
    ((\A t \in Calls : init_fault[t] = "none") /\ (\E t \in Calls : pc[t] # "idle")) =>
        /\ init_runs = 1 /\ connections = 1 /\ templates = 1
        /\ llm = 1 /\ prompt_template = 1
        /\ Cardinality({t \in Calls : cold[t]}) = 1
C17_Witness ==
    /\ init_runs = 1
    /\ \A t \in Calls : Replied(t)
    /\ \E t \in Calls : ~cold[t]

\* C18: a step in which ContentModerator.analyze_message returns, with a
\* parsed decision or from its except branch, leaves llm and prompt_template
\* unchanged; they change only in a step where the wrapper finds llm unset and
\* runs initialize.
C18_AnalyzeLeavesEngine ==
    [][/\ \A t \in Calls : (pc[t] = "invoking" /\ pc'[t] # "invoking") =>
              llm' = llm /\ prompt_template' = prompt_template
       /\ (llm' # llm \/ prompt_template' # prompt_template) =>
              llm = 0 /\ init_runs' = init_runs + 1]_vars
C18_Witness ==
    \E t, u \in Calls :
        /\ failure[t] # "none" /\ Analysed(t)
        /\ Replied(u)
        /\ llm = 1 /\ prompt_template = 1

\* C19: under any interleaving of calls, the result of each call is derived
\* from its own message and its own provider reply (or its own invocation
\* failure): message_analyzed is the message passed to that call, and two
\* calls that got the same reply get the same action, reason and confidence.
Decision(res) == <<res.action, res.reason, res.confidence>>
C19_ResultOfOwnInput ==
    /\ \A t \in Calls : Analysed(t) => result[t].message_analyzed = message[t]
    /\ \A t \in Calls : Replied(t) => result[t] = parse_moderation_response(response[t], message[t])
    /\ \A t \in Calls : (Analysed(t) /\ failure[t] # "none") =>
           result[t] = AnalysisFallback(failure[t], message[t])
    /\ \A t, u \in Calls : (Replied(t) /\ Replied(u) /\ response[t] = response[u]) =>
           Decision(result[t]) = Decision(result[u])
C19_Witness ==
    \E t, u \in Calls :
        /\ cold[u] /\ pc[u] = "invoking"
        /\ ~cold[t] /\ Replied(t) /\ result[t].action # "APPROVE"

\* C20: a punitive action (WARN, DELETE, BAN, TIMEOUT) is returned only when
\* the provider call completed and its reply holds a JSON object whose action
\* string equals, ignoring case, the label of that action; an uninitialized
\* engine, a provider failure, a reply without a JSON object and a field that
\* cannot be converted all yield APPROVE, and the handler makes a gateway call
\* only for a punitive decision.
Punitive == {"WARN", "DELETE", "BAN", "TIMEOUT"}
C20_PunitiveOnlyFromMatchingReply ==
    \A t \in Calls :
        /\ (Analysed(t) /\ result[t].action \in Punitive) =>
              /\ Replied(t) /\ failure[t] = "none" /\ init_fault[t] = "none"
              /\ HasObject(response[t])
              /\ ObjectOf(response[t]).action.k = "str"
              /\ EqIgnoreCase(ObjectOf(response[t]).action.s, ModerationAction[result[t].action])
        /\ (Analysed(t) /\ response[t] = NoResponse) => result[t].action = "APPROVE"
        /\ (Replied(t) /\ ~HasObject(response[t])) => result[t].action = "APPROVE"
        /\ (Replied(t) /\ HasObject(response[t]) /\ NotCoercible(ObjectOf(response[t]).confidence)) =>
              result[t].action = "APPROVE"
        /\ gateway[t] # <<>> => Analysed(t) /\ result[t].action \in Punitive
C20_Witness ==
    \E t, u \in Calls :
        /\ Replied(t) /\ result[t].action = "BAN" /\ gateway[t] # <<>>
        /\ Replied(u) /\ HasObject(response[u]) /\ NotCoercible(ObjectOf(response[u]).confidence)
        /\ EqIgnoreCase(ObjectOf(response[u]).action.s, ModerationAction["BAN"])
        /\ result[u].action = "APPROVE"

\* ------------------------------------------------------------ C21 .. C23
\* C21: the engine is never partially initialized: whenever llm is set,
\* prompt_template is set too, after any initialize, successful or failed.
C21_NeverPartiallyInitialized ==
    llm # 0 => prompt_template # 0

\* C22: when the construction of the provider connection raises, the engine
\* stays uninitialized; a call that starts while llm is unset runs initialize
\* again; a successful initialize sets both fields and its call goes on to the
\* provider, as does every call that starts on the initialized engine.
Starts(t) == pc[t] = "idle" /\ pc'[t] # "idle"
C22_FailedInitNotSticky ==
    [][\A t \in Calls : Starts(t) =>
          /\ init_fault'[t] = "connection" =>
                llm' = 0 /\ prompt_template' = prompt_template /\ outcome'[t] = "raised"
          /\ llm = 0 => cold'[t] /\ init_runs' = init_runs + 1
          /\ (cold'[t] /\ init_fault'[t] = "none") =>
                llm' # 0 /\ prompt_template' # 0 /\ pc'[t] = "invoking"
          /\ (llm # 0 /\ prompt_template # 0) =>
                ~cold'[t] /\ init_runs' = init_runs /\ pc'[t] = "invoking"]_vars
C22_Witness ==
    \E t, u \in Calls :
        /\ init_fault[t] = "connection" /\ outcome[t] = "raised"
        /\ cold[u] /\ init_fault[u] = "none" /\ Replied(u)
        /\ init_runs = 2 /\ llm # 0

\* C23: for a BAN decision the first gateway call is the removal of the user;
\* the deletion of the message is called only second and only after a
\* removal that succeeded; after a removal that failed no further call is
\* made and the handler finishes without raising.
C23_BanBeforeDelete ==
    \A t \in Calls : (Analysed(t) /\ result[t].action = "BAN") =>
        /\ pc[t] # "crashed"
        /\ (pc[t] = "acting" /\ gateway[t] = <<>>) => Head(todo[t]) = BanChatMember
        /\ Len(gateway[t]) >= 1 => gateway[t][1].call = BanChatMember
        /\ \A i \in 1..Len(gateway[t]) :
              gateway[t][i].call = Delete => i = 2 /\ gateway[t][1].ok
        /\ (Len(gateway[t]) >= 1 /\ ~gateway[t][1].ok) =>
              Len(gateway[t]) = 1 /\ todo[t] = <<>> /\ Finished(t)
C23_Witness ==
    \E t \in Calls :
        /\ Analysed(t) /\ result[t].action = "BAN" /\ Finished(t)
        /\ gateway[t] = <<[call |-> BanChatMember, ok |-> FALSE]>>

====
